---- MODULE Spec2Model ----
(***************************************************************************)
(* Model of src/secure/signed.rs: the SignedJar child jar, which prepends  *)
(* the base-64 HMAC-SHA256 tag of a cookie's value to that value and       *)
(* checks it again on retrieval.                                           *)
(*                                                                         *)
(* Strings are sequences of bytes (0..255) holding valid UTF-8, as a Rust  *)
(* &str does.  An Option is a set with at most one element; a Result is a  *)
(* record with a kind of "Ok", "Err" or "Panic".                           *)
(***************************************************************************)
EXTENDS Integers, Sequences, FiniteSets, TLC

\* signed.rs:13-14
BASE64_DIGEST_LEN == 44
KEY_LEN == 32

\* The size of Output<Hmac<Sha256>> (signed.rs:60), in bytes.
SHA256_OUTPUT_LEN == 32

\* Longest plaintext (in bytes) a behaviour signs.
MaxLen == 2

(***************************************************************************)
(* str: UTF-8 and char boundaries                                          *)
(***************************************************************************)

\* u8::is_utf8_char_boundary: (b as i8) >= -0x40, i.e. not a continuation byte.
is_utf8_char_boundary(b) == b < 128 \/ b >= 192

\* str::is_char_boundary as called at signed.rs:54.
is_char_boundary(s, index) ==
  IF index = 0 THEN TRUE
  ELSE IF index >= Len(s) THEN index = Len(s)
  ELSE is_utf8_char_boundary(s[index + 1])

\* The invariant of a Rust str, for one- and two-byte characters: every lead
\* byte 0xC2..0xDF is followed by one continuation byte, and no continuation
\* byte stands alone.  (Longer characters are outside the bytes drawn here.)
IsUtf8(s) ==
  \A i \in 1..Len(s) :
    /\ s[i] < 128 \/ (s[i] >= 128 /\ s[i] < 192) \/ (s[i] >= 194 /\ s[i] < 224)
    /\ (s[i] >= 194) => (i < Len(s) /\ s[i + 1] >= 128 /\ s[i + 1] < 192)
    /\ (s[i] >= 128 /\ s[i] < 192) => (i > 1 /\ s[i - 1] >= 194)

\* str::split_at as called at signed.rs:59: panics off a char boundary.
split_at(s, mid) ==
  IF is_char_boundary(s, mid)
  THEN [panic |-> FALSE, head |-> SubSeq(s, 1, mid), tail |-> SubSeq(s, mid + 1, Len(s))]
  ELSE [panic |-> TRUE, head |-> <<>>, tail |-> <<>>]

(***************************************************************************)
(* base64ct::Base64 (standard alphabet, padded)                            *)
(***************************************************************************)

\* 6-bit value to its character: A-Z a-z 0-9 + /
encode_6bits(v) ==
  IF v < 26 THEN 65 + v
  ELSE IF v < 52 THEN 97 + (v - 26)
  ELSE IF v < 62 THEN 48 + (v - 52)
  ELSE IF v = 62 THEN 43 ELSE 47

\* Character to its 6-bit value, -1 when it is not of the alphabet.
decode_6bits(c) ==
  IF c >= 65 /\ c <= 90 THEN c - 65
  ELSE IF c >= 97 /\ c <= 122 THEN c - 97 + 26
  ELSE IF c >= 48 /\ c <= 57 THEN c - 48 + 52
  ELSE IF c = 43 THEN 62
  ELSE IF c = 47 THEN 63 ELSE -1

is_pad(c) == c = 61

ByteAt(bytes, i) == IF i <= Len(bytes) THEN bytes[i] ELSE 0

\* Base64::encode_string as called at signed.rs:45: each 3 bytes give 4
\* characters, a short last block is padded with '='.
Base64EncodeString(bytes) ==
  LET n == Len(bytes)
      olen == 4 * ((n + 2) \div 3)
      ch(j) ==
        LET g == (j - 1) \div 4
            r == (j - 1) % 4
            b0 == ByteAt(bytes, 3 * g + 1)
            b1 == ByteAt(bytes, 3 * g + 2)
            b2 == ByteAt(bytes, 3 * g + 3)
        IN  IF r = 0 THEN encode_6bits(b0 \div 4)
            ELSE IF r = 1 THEN encode_6bits((b0 % 4) * 16 + (b1 \div 16))
            ELSE IF r = 2 THEN
              IF 3 * g + 2 > n THEN 61
              ELSE encode_6bits((b1 % 16) * 4 + (b2 \div 64))
            ELSE
              IF 3 * g + 3 > n THEN 61 ELSE encode_6bits(b2 % 64)
  IN  [j \in 1..olen |-> ch(j)]

\* base64ct decode_padding: the length is a multiple of 4, and '=' stands
\* only as the last character or the last two.
PaddingLen(src) ==
  LET n == Len(src)
  IN  IF n < 2 THEN 0
      ELSE (IF is_pad(src[n - 1]) THEN 1 ELSE 0) + (IF is_pad(src[n]) THEN 1 ELSE 0)

PaddingOk(src) ==
  LET n == Len(src)
      p == PaddingLen(src)
  IN  /\ n % 4 = 0
      /\ p = 1 => is_pad(src[n])
      /\ p = 2 => (is_pad(src[n - 1]) /\ is_pad(src[n]))

\* base64ct decoded_len: (3 * n) / 4.
decoded_len(input_len) ==
  LET k == input_len \div 4
      l == input_len - 4 * k
  IN  3 * k + (3 * l) \div 4

\* The bytes the unpadded characters hold.
DecodedBytes(unpadded) ==
  LET v(j) == IF j <= Len(unpadded) THEN decode_6bits(unpadded[j]) ELSE 0
      byte(i) ==
        LET g == (i - 1) \div 3
            r == (i - 1) % 3
            c0 == v(4 * g + 1)
            c1 == v(4 * g + 2)
            c2 == v(4 * g + 3)
            c3 == v(4 * g + 4)
        IN  IF r = 0 THEN c0 * 4 + (c1 \div 16)
            ELSE IF r = 1 THEN (c1 % 16) * 16 + (c2 \div 4)
            ELSE (c2 % 4) * 64 + c3
  IN  [i \in 1..decoded_len(Len(unpadded)) |-> byte(i)]

\* base64ct validate_last_block: the last block of the decoded bytes encodes
\* back to the last four characters of the input (canonical encodings only).
validate_last_block(src, decoded) ==
  IF Len(src) = 0 /\ Len(decoded) = 0 THEN TRUE
  ELSE IF Len(src) < 4 \/ Len(decoded) = 0 THEN FALSE
  ELSE
    LET start == (Len(decoded) - 1) - ((Len(decoded) - 1) % 3)
        block == SubSeq(decoded, start + 1, Len(decoded))
    IN  Base64EncodeString(block) = SubSeq(src, Len(src) - 3, Len(src))

\* Base64::decode(src, &mut dst) as called at signed.rs:61.  dst is the
\* caller's buffer; the decoded bytes overwrite its head and the call
\* returns that head.  The bytes of dst past it are left as they were.
Base64Decode(src, dst) ==
  LET unpadded == SubSeq(src, 1, Len(src) - PaddingLen(src))
      dlen == decoded_len(Len(unpadded))
      bytes == DecodedBytes(unpadded)
  IN  IF ~PaddingOk(src) THEN [ok |-> FALSE, len |-> 0, dst |-> dst]
      ELSE IF dlen > Len(dst) THEN [ok |-> FALSE, len |-> 0, dst |-> dst]
      ELSE IF \E j \in 1..Len(unpadded) : decode_6bits(unpadded[j]) < 0
        THEN [ok |-> FALSE, len |-> 0, dst |-> dst]
      ELSE IF ~validate_last_block(src, bytes) THEN [ok |-> FALSE, len |-> 0, dst |-> dst]
      ELSE [ok |-> TRUE, len |-> dlen,
            dst |-> [i \in 1..Len(dst) |-> IF i <= dlen THEN bytes[i] ELSE dst[i]]]

(***************************************************************************)
(* hmac::Hmac<Sha256>                                                      *)
(***************************************************************************)

\* The signing keys drawn: KEY_LEN bytes each.
KeyZero == [i \in 1..KEY_LEN |-> 0]
KeyThirty == [i \in 1..KEY_LEN |-> 30]
Keys == {KeyZero, KeyThirty}

\* HMAC-SHA256 of every message the behaviours reach, under each key of Keys:
\* <<key, message, tag>>, the tags being the function's real values
\* (RFC 2104 over FIPS 180-4), 32 bytes each.
HmacSha256Vectors ==
  {
    <<KeyZero, <<>>, <<182, 19, 103, 154, 8, 20, 217, 236, 119, 47, 149, 215, 120, 195, 95, 197, 255, 22, 151, 196, 147, 113, 86, 83, 198, 199, 18, 20, 66, 146, 197, 173>>>>,
    <<KeyZero, <<33>>, <<155, 119, 16, 197, 198, 52, 29, 83, 183, 228, 15, 241, 137, 148, 126, 198, 112, 247, 23, 167, 222, 171, 174, 227, 232, 200, 66, 20, 233, 61, 28, 111>>>>,
    <<KeyZero, <<61>>, <<87, 204, 112, 9, 222, 218, 113, 14, 110, 58, 179, 90, 111, 177, 177, 228, 209, 20, 8, 110, 123, 143, 209, 93, 210, 228, 98, 89, 229, 4, 144, 208>>>>,
    <<KeyZero, <<97>>, <<150, 21, 169, 93, 74, 51, 97, 24, 196, 53, 185, 205, 84, 197, 232, 100, 74, 185, 86, 181, 115, 170, 41, 38, 39, 74, 18, 128, 182, 103, 71, 19>>>>,
    <<KeyZero, <<98>>, <<99, 3, 168, 91, 182, 206, 83, 157, 69, 170, 192, 218, 247, 205, 231, 162, 72, 5, 31, 235, 90, 200, 100, 153, 202, 79, 81, 89, 226, 136, 110, 162>>>>,
    <<KeyZero, <<33, 33>>, <<148, 218, 255, 222, 174, 227, 228, 0, 198, 136, 34, 173, 132, 32, 66, 246, 146, 134, 143, 11, 190, 144, 48, 47, 224, 155, 116, 77, 149, 28, 17, 172>>>>,
    <<KeyZero, <<33, 61>>, <<102, 231, 62, 223, 169, 142, 244, 44, 112, 125, 40, 57, 108, 90, 27, 62, 75, 45, 17, 153, 227, 150, 201, 105, 94, 185, 89, 43, 72, 78, 133, 151>>>>,
    <<KeyZero, <<33, 97>>, <<243, 59, 198, 254, 24, 69, 137, 115, 193, 1, 149, 154, 212, 107, 173, 224, 202, 161, 146, 230, 81, 39, 64, 15, 229, 238, 148, 236, 39, 245, 139, 10>>>>,
    <<KeyZero, <<33, 98>>, <<128, 202, 36, 80, 218, 240, 106, 101, 43, 190, 212, 208, 88, 51, 80, 28, 85, 226, 221, 206, 131, 52, 4, 141, 202, 142, 200, 54, 96, 158, 212, 25>>>>,
    <<KeyZero, <<61, 33>>, <<15, 122, 108, 23, 23, 18, 71, 131, 92, 189, 39, 232, 61, 53, 253, 236, 154, 56, 199, 142, 83, 67, 237, 87, 157, 101, 29, 167, 97, 157, 35, 75>>>>,
    <<KeyZero, <<61, 61>>, <<218, 150, 76, 196, 235, 121, 218, 55, 63, 167, 140, 24, 1, 234, 176, 237, 248, 229, 249, 254, 109, 12, 250, 163, 138, 109, 205, 98, 57, 207, 0, 245>>>>,
    <<KeyZero, <<61, 97>>, <<219, 250, 126, 46, 75, 66, 220, 232, 7, 175, 252, 240, 236, 118, 250, 12, 56, 251, 61, 116, 246, 205, 195, 98, 62, 222, 194, 154, 14, 36, 55, 21>>>>,
    <<KeyZero, <<61, 98>>, <<126, 40, 111, 88, 164, 211, 25, 34, 194, 236, 19, 233, 250, 158, 74, 0, 29, 23, 49, 57, 72, 45, 197, 202, 0, 88, 147, 225, 70, 48, 34, 239>>>>,
    <<KeyZero, <<97, 33>>, <<9, 68, 38, 75, 218, 156, 214, 153, 25, 148, 83, 96, 63, 54, 217, 23, 211, 214, 166, 118, 49, 117, 231, 126, 238, 223, 50, 75, 251, 153, 222, 7>>>>,
    <<KeyZero, <<97, 61>>, <<165, 162, 208, 144, 79, 235, 223, 200, 79, 83, 214, 39, 127, 22, 80, 212, 42, 80, 45, 224, 155, 181, 67, 16, 39, 35, 11, 158, 168, 179, 102, 64>>>>,
    <<KeyZero, <<97, 97>>, <<223, 69, 225, 177, 118, 172, 71, 206, 63, 78, 23, 219, 59, 20, 67, 85, 79, 11, 206, 186, 83, 147, 170, 128, 165, 108, 158, 5, 152, 66, 151, 178>>>>,
    <<KeyZero, <<97, 98>>, <<214, 183, 156, 235, 16, 26, 145, 166, 34, 1, 23, 89, 218, 58, 5, 161, 50, 219, 130, 224, 84, 92, 94, 34, 160, 190, 251, 113, 193, 83, 4, 65>>>>,
    <<KeyZero, <<98, 33>>, <<154, 168, 3, 174, 50, 189, 136, 101, 61, 248, 71, 11, 60, 128, 188, 155, 30, 68, 24, 55, 120, 243, 19, 75, 13, 196, 53, 178, 78, 118, 121, 150>>>>,
    <<KeyZero, <<98, 61>>, <<74, 98, 67, 36, 127, 32, 107, 139, 182, 62, 211, 176, 32, 170, 104, 117, 208, 87, 47, 236, 17, 163, 248, 162, 228, 162, 50, 233, 27, 137, 166, 127>>>>,
    <<KeyZero, <<98, 97>>, <<84, 222, 140, 17, 110, 128, 142, 71, 176, 155, 229, 178, 91, 196, 42, 77, 128, 17, 29, 169, 52, 135, 229, 51, 158, 68, 110, 89, 148, 188, 75, 84>>>>,
    <<KeyZero, <<98, 98>>, <<156, 156, 191, 80, 93, 108, 142, 44, 92, 198, 217, 31, 186, 87, 97, 81, 195, 136, 84, 207, 142, 167, 99, 41, 171, 110, 127, 135, 96, 76, 63, 125>>>>,
    <<KeyZero, <<194, 162>>, <<8, 248, 233, 145, 118, 81, 171, 6, 122, 160, 71, 12, 195, 54, 160, 157, 148, 247, 147, 214, 181, 167, 145, 229, 111, 219, 194, 37, 182, 34, 235, 7>>>>,
    <<KeyZero, <<194, 163>>, <<187, 115, 143, 121, 24, 28, 115, 129, 6, 143, 15, 97, 57, 217, 24, 207, 233, 130, 132, 226, 165, 33, 196, 202, 119, 172, 42, 92, 7, 53, 1, 32>>>>,
    <<KeyZero, <<33, 33, 33>>, <<104, 89, 41, 75, 239, 248, 181, 172, 231, 104, 252, 194, 82, 101, 1, 103, 14, 172, 57, 125, 89, 181, 71, 117, 46, 91, 137, 1, 153, 151, 11, 80>>>>,
    <<KeyZero, <<33, 33, 61>>, <<107, 235, 67, 248, 234, 19, 174, 170, 70, 24, 135, 242, 170, 51, 149, 141, 43, 224, 94, 67, 203, 136, 70, 138, 184, 145, 194, 42, 8, 244, 71, 91>>>>,
    <<KeyZero, <<33, 33, 97>>, <<150, 11, 183, 95, 91, 26, 201, 192, 218, 223, 84, 135, 75, 159, 74, 170, 250, 235, 58, 190, 55, 133, 34, 227, 114, 136, 54, 199, 101, 188, 180, 111>>>>,
    <<KeyZero, <<33, 33, 98>>, <<75, 25, 92, 169, 55, 45, 121, 56, 237, 202, 169, 220, 225, 18, 25, 135, 199, 121, 5, 172, 191, 154, 41, 60, 228, 188, 125, 69, 158, 58, 237, 219>>>>,
    <<KeyZero, <<33, 61, 33>>, <<108, 205, 116, 15, 188, 150, 249, 230, 49, 165, 149, 136, 210, 245, 247, 58, 4, 241, 55, 154, 249, 100, 238, 81, 100, 51, 103, 175, 154, 98, 207, 24>>>>,
    <<KeyZero, <<33, 61, 61>>, <<58, 46, 189, 120, 171, 49, 206, 251, 7, 6, 31, 92, 145, 38, 210, 131, 196, 29, 93, 85, 123, 115, 242, 171, 0, 17, 129, 5, 127, 150, 32, 90>>>>,
    <<KeyZero, <<33, 61, 97>>, <<197, 121, 205, 96, 165, 72, 76, 33, 33, 13, 237, 117, 149, 156, 250, 84, 80, 247, 86, 3, 238, 195, 30, 128, 206, 102, 197, 11, 245, 141, 43, 31>>>>,
    <<KeyZero, <<33, 61, 98>>, <<174, 226, 59, 229, 244, 7, 118, 210, 249, 133, 234, 23, 201, 145, 74, 189, 4, 247, 29, 46, 93, 68, 125, 89, 141, 147, 74, 25, 140, 138, 14, 243>>>>,
    <<KeyZero, <<33, 97, 33>>, <<124, 143, 148, 85, 127, 236, 217, 124, 90, 236, 59, 55, 88, 195, 193, 93, 198, 123, 150, 132, 6, 3, 95, 230, 179, 172, 106, 163, 54, 61, 213, 30>>>>,
    <<KeyZero, <<33, 97, 61>>, <<202, 160, 7, 19, 8, 30, 221, 238, 126, 3, 98, 61, 24, 198, 219, 249, 204, 242, 141, 109, 65, 178, 237, 115, 79, 213, 244, 216, 148, 246, 115, 30>>>>,
    <<KeyZero, <<33, 97, 97>>, <<240, 255, 114, 197, 63, 23, 32, 169, 207, 41, 25, 182, 168, 219, 2, 147, 105, 88, 32, 87, 131, 229, 15, 142, 156, 97, 115, 120, 162, 19, 92, 248>>>>,
    <<KeyZero, <<33, 97, 98>>, <<201, 210, 133, 58, 194, 30, 207, 191, 165, 73, 243, 178, 125, 168, 57, 165, 84, 45, 6, 122, 64, 41, 146, 189, 1, 201, 26, 135, 52, 219, 210, 142>>>>,
    <<KeyZero, <<33, 98, 33>>, <<207, 86, 164, 144, 238, 241, 197, 108, 187, 250, 121, 38, 134, 160, 151, 235, 78, 238, 225, 41, 70, 187, 54, 85, 90, 212, 153, 84, 14, 47, 70, 232>>>>,
    <<KeyZero, <<33, 98, 61>>, <<124, 83, 174, 89, 22, 246, 200, 123, 216, 136, 165, 214, 252, 190, 34, 192, 249, 85, 135, 230, 84, 95, 126, 220, 114, 118, 121, 122, 161, 54, 220, 185>>>>,
    <<KeyZero, <<33, 98, 97>>, <<220, 173, 223, 59, 225, 11, 91, 157, 176, 33, 83, 211, 144, 189, 235, 116, 204, 106, 18, 123, 125, 191, 12, 141, 177, 160, 176, 2, 227, 129, 232, 182>>>>,
    <<KeyZero, <<33, 98, 98>>, <<59, 108, 122, 145, 249, 228, 225, 224, 239, 167, 109, 63, 52, 85, 168, 22, 219, 40, 173, 45, 63, 56, 211, 138, 75, 107, 232, 91, 245, 130, 71, 102>>>>,
    <<KeyZero, <<33, 194, 162>>, <<169, 110, 113, 152, 92, 139, 40, 56, 48, 163, 11, 155, 210, 15, 251, 36, 65, 55, 172, 82, 168, 19, 82, 53, 232, 151, 196, 254, 116, 222, 66, 176>>>>,
    <<KeyZero, <<33, 194, 163>>, <<31, 79, 222, 51, 80, 151, 173, 197, 161, 145, 65, 109, 151, 232, 224, 107, 125, 94, 26, 30, 163, 163, 13, 190, 229, 154, 35, 129, 212, 68, 49, 51>>>>,
    <<KeyZero, <<61, 33, 33>>, <<110, 30, 70, 149, 104, 44, 17, 54, 209, 41, 246, 186, 13, 115, 80, 239, 113, 0, 58, 70, 184, 90, 73, 191, 79, 161, 95, 230, 118, 138, 121, 4>>>>,
    <<KeyZero, <<61, 33, 61>>, <<212, 145, 165, 28, 137, 59, 228, 14, 156, 45, 50, 109, 31, 94, 253, 115, 8, 174, 147, 22, 235, 242, 59, 177, 184, 69, 53, 245, 227, 9, 164, 7>>>>,
    <<KeyZero, <<61, 33, 97>>, <<250, 119, 21, 36, 186, 153, 60, 177, 248, 109, 232, 4, 184, 82, 245, 137, 187, 100, 214, 174, 4, 214, 64, 207, 56, 140, 205, 0, 176, 67, 57, 69>>>>,
    <<KeyZero, <<61, 33, 98>>, <<85, 102, 227, 92, 184, 3, 33, 206, 7, 116, 29, 197, 165, 190, 140, 13, 14, 122, 152, 201, 32, 203, 89, 236, 126, 76, 246, 105, 26, 33, 123, 212>>>>,
    <<KeyZero, <<61, 61, 33>>, <<59, 139, 219, 76, 43, 163, 251, 59, 219, 246, 254, 157, 187, 39, 2, 26, 195, 36, 29, 69, 40, 246, 28, 66, 82, 122, 2, 218, 174, 80, 163, 64>>>>,
    <<KeyZero, <<61, 61, 61>>, <<41, 183, 202, 15, 218, 246, 19, 155, 86, 237, 70, 197, 184, 229, 166, 97, 96, 243, 87, 70, 134, 217, 255, 88, 91, 254, 145, 40, 5, 61, 102, 205>>>>,
    <<KeyZero, <<61, 61, 97>>, <<102, 4, 147, 247, 109, 236, 194, 126, 13, 91, 149, 208, 31, 219, 254, 95, 71, 87, 37, 171, 76, 85, 128, 146, 33, 227, 185, 172, 22, 66, 48, 14>>>>,
    <<KeyZero, <<61, 61, 98>>, <<236, 131, 53, 208, 184, 77, 113, 30, 238, 54, 232, 236, 17, 117, 20, 68, 146, 196, 204, 181, 195, 62, 124, 127, 212, 190, 143, 193, 71, 201, 181, 156>>>>,
    <<KeyZero, <<61, 97, 33>>, <<42, 136, 74, 223, 153, 192, 50, 8, 47, 227, 57, 32, 86, 178, 181, 120, 10, 227, 229, 129, 194, 38, 170, 61, 214, 48, 138, 62, 254, 111, 154, 193>>>>,
    <<KeyZero, <<61, 97, 61>>, <<163, 148, 149, 62, 132, 233, 88, 145, 29, 150, 64, 163, 112, 178, 198, 246, 175, 246, 117, 192, 149, 128, 175, 133, 50, 154, 157, 238, 218, 151, 136, 179>>>>,
    <<KeyZero, <<61, 97, 97>>, <<190, 80, 100, 31, 232, 61, 220, 86, 15, 118, 236, 154, 72, 238, 48, 83, 148, 115, 41, 114, 91, 238, 246, 189, 116, 2, 212, 81, 57, 144, 30, 238>>>>,
    <<KeyZero, <<61, 97, 98>>, <<30, 103, 167, 3, 21, 179, 66, 131, 140, 215, 7, 158, 112, 64, 138, 188, 112, 153, 207, 16, 169, 37, 138, 253, 137, 126, 107, 2, 54, 178, 8, 61>>>>,
    <<KeyZero, <<61, 98, 33>>, <<99, 146, 53, 107, 252, 115, 72, 152, 185, 12, 39, 130, 138, 241, 144, 24, 10, 241, 171, 149, 85, 201, 48, 192, 116, 109, 191, 71, 97, 94, 28, 119>>>>,
    <<KeyZero, <<61, 98, 61>>, <<57, 147, 40, 231, 97, 195, 229, 166, 116, 212, 122, 120, 234, 4, 37, 195, 140, 175, 124, 37, 101, 5, 125, 219, 208, 218, 146, 143, 24, 206, 38, 130>>>>,
    <<KeyZero, <<61, 98, 97>>, <<177, 33, 187, 195, 156, 188, 225, 169, 201, 99, 85, 47, 227, 33, 34, 5, 6, 230, 191, 133, 116, 143, 167, 24, 161, 99, 80, 114, 182, 149, 219, 195>>>>,
    <<KeyZero, <<61, 98, 98>>, <<75, 160, 190, 128, 113, 16, 4, 191, 185, 27, 217, 192, 243, 113, 183, 241, 30, 178, 144, 116, 131, 233, 83, 72, 239, 47, 102, 159, 73, 164, 209, 64>>>>,
    <<KeyZero, <<61, 194, 162>>, <<209, 204, 40, 100, 144, 31, 67, 149, 85, 230, 196, 130, 12, 61, 242, 19, 196, 215, 127, 150, 50, 56, 88, 150, 238, 39, 231, 44, 201, 94, 53, 176>>>>,
    <<KeyZero, <<61, 194, 163>>, <<6, 200, 164, 28, 201, 23, 107, 97, 160, 204, 241, 199, 168, 176, 250, 221, 183, 2, 10, 79, 93, 194, 40, 129, 99, 183, 29, 224, 134, 41, 141, 251>>>>,
    <<KeyZero, <<97, 33, 33>>, <<23, 202, 253, 152, 17, 182, 98, 59, 84, 82, 254, 207, 30, 112, 184, 85, 238, 3, 132, 143, 82, 52, 100, 213, 210, 46, 254, 140, 55, 255, 178, 14>>>>,
    <<KeyZero, <<97, 33, 61>>, <<252, 61, 237, 17, 63, 95, 232, 30, 192, 161, 7, 230, 93, 77, 93, 130, 217, 214, 98, 225, 182, 215, 102, 88, 94, 105, 222, 40, 72, 33, 48, 25>>>>,
    <<KeyZero, <<97, 33, 97>>, <<243, 227, 226, 251, 201, 54, 53, 228, 159, 62, 45, 131, 86, 185, 149, 152, 101, 173, 132, 60, 174, 199, 200, 49, 30, 112, 56, 179, 198, 186, 169, 113>>>>,
    <<KeyZero, <<97, 33, 98>>, <<72, 106, 173, 158, 108, 240, 191, 84, 214, 137, 92, 213, 212, 33, 235, 222, 9, 92, 148, 147, 173, 164, 231, 165, 176, 173, 45, 106, 78, 187, 50, 205>>>>,
    <<KeyZero, <<97, 61, 33>>, <<23, 93, 32, 91, 13, 113, 181, 220, 18, 122, 100, 203, 73, 49, 17, 107, 208, 95, 132, 113, 165, 36, 221, 237, 122, 153, 255, 93, 91, 36, 79, 247>>>>,
    <<KeyZero, <<97, 61, 61>>, <<205, 231, 206, 90, 139, 212, 167, 24, 238, 103, 188, 169, 160, 5, 41, 56, 92, 108, 79, 252, 100, 36, 247, 13, 196, 58, 58, 128, 109, 122, 101, 33>>>>,
    <<KeyZero, <<97, 61, 97>>, <<254, 249, 250, 77, 80, 77, 203, 187, 179, 152, 170, 49, 27, 50, 101, 103, 189, 201, 7, 224, 206, 234, 135, 60, 107, 122, 103, 145, 6, 92, 198, 53>>>>,
    <<KeyZero, <<97, 61, 98>>, <<56, 108, 241, 209, 162, 60, 81, 193, 173, 224, 39, 26, 190, 103, 253, 89, 165, 47, 208, 155, 143, 164, 2, 205, 192, 46, 189, 207, 29, 92, 212, 119>>>>,
    <<KeyZero, <<97, 97, 33>>, <<125, 100, 168, 148, 55, 13, 194, 63, 88, 115, 43, 172, 90, 245, 51, 152, 45, 225, 140, 87, 10, 173, 41, 241, 161, 143, 87, 145, 160, 156, 110, 47>>>>,
    <<KeyZero, <<97, 97, 61>>, <<91, 34, 205, 123, 204, 70, 169, 117, 211, 76, 201, 225, 9, 107, 192, 197, 89, 75, 208, 166, 15, 165, 2, 147, 27, 228, 148, 159, 91, 216, 3, 114>>>>,
    <<KeyZero, <<97, 97, 97>>, <<55, 243, 75, 128, 198, 133, 79, 137, 8, 199, 72, 102, 55, 147, 151, 115, 144, 237, 191, 250, 164, 210, 188, 151, 34, 180, 14, 31, 47, 69, 219, 97>>>>,
    <<KeyZero, <<97, 97, 98>>, <<79, 209, 208, 201, 12, 217, 186, 64, 238, 23, 243, 171, 89, 56, 251, 85, 98, 219, 255, 229, 69, 96, 13, 150, 34, 92, 247, 227, 236, 231, 158, 3>>>>,
    <<KeyZero, <<97, 98, 33>>, <<67, 104, 216, 240, 182, 115, 98, 216, 139, 89, 7, 55, 135, 104, 14, 81, 159, 56, 247, 211, 134, 18, 179, 20, 10, 166, 76, 216, 240, 140, 135, 122>>>>,
    <<KeyZero, <<97, 98, 61>>, <<210, 49, 164, 243, 114, 178, 60, 46, 56, 155, 31, 140, 249, 156, 70, 36, 175, 91, 225, 59, 229, 171, 52, 20, 77, 73, 176, 78, 234, 80, 169, 29>>>>,
    <<KeyZero, <<97, 98, 97>>, <<236, 68, 80, 73, 199, 30, 17, 68, 164, 111, 123, 200, 81, 7, 154, 146, 16, 156, 6, 250, 99, 118, 89, 26, 170, 3, 23, 44, 121, 27, 81, 215>>>>,
    <<KeyZero, <<97, 98, 98>>, <<244, 112, 147, 23, 210, 109, 188, 96, 29, 179, 68, 237, 15, 159, 201, 60, 151, 145, 16, 146, 243, 74, 227, 166, 93, 242, 136, 6, 44, 82, 214, 76>>>>,
    <<KeyZero, <<97, 194, 162>>, <<207, 81, 40, 193, 58, 99, 178, 85, 193, 37, 244, 185, 99, 185, 14, 184, 116, 118, 162, 148, 146, 152, 55, 20, 238, 85, 215, 161, 34, 119, 19, 228>>>>,
    <<KeyZero, <<97, 194, 163>>, <<69, 25, 176, 216, 92, 214, 126, 233, 165, 88, 59, 95, 83, 104, 180, 208, 244, 197, 33, 179, 133, 166, 196, 65, 179, 71, 241, 33, 108, 125, 154, 100>>>>,
    <<KeyZero, <<98, 33, 33>>, <<225, 156, 180, 29, 59, 224, 208, 195, 78, 10, 18, 135, 43, 163, 118, 242, 187, 157, 147, 216, 88, 215, 25, 114, 11, 254, 36, 102, 20, 227, 190, 96>>>>,
    <<KeyZero, <<98, 33, 61>>, <<72, 185, 177, 16, 2, 66, 137, 1, 71, 242, 153, 94, 217, 120, 163, 229, 100, 55, 251, 150, 23, 200, 246, 97, 174, 113, 206, 59, 62, 252, 191, 95>>>>,
    <<KeyZero, <<98, 33, 97>>, <<81, 145, 164, 37, 40, 60, 11, 19, 216, 58, 28, 183, 212, 6, 148, 22, 214, 186, 62, 117, 97, 199, 196, 101, 79, 72, 152, 136, 66, 131, 122, 152>>>>,
    <<KeyZero, <<98, 33, 98>>, <<171, 72, 251, 105, 129, 12, 97, 120, 65, 255, 25, 163, 243, 247, 79, 130, 251, 9, 110, 245, 70, 226, 14, 33, 23, 184, 254, 153, 253, 1, 212, 83>>>>,
    <<KeyZero, <<98, 61, 33>>, <<214, 86, 100, 41, 8, 79, 226, 180, 230, 166, 143, 124, 234, 56, 73, 30, 123, 248, 180, 242, 128, 11, 15, 113, 66, 120, 229, 33, 90, 88, 214, 195>>>>,
    <<KeyZero, <<98, 61, 61>>, <<213, 37, 21, 37, 83, 67, 32, 50, 124, 156, 101, 120, 94, 145, 37, 251, 153, 250, 95, 37, 53, 116, 139, 10, 182, 97, 247, 96, 86, 251, 246, 108>>>>,
    <<KeyZero, <<98, 61, 97>>, <<56, 46, 133, 10, 167, 177, 129, 202, 80, 6, 236, 140, 113, 98, 217, 30, 175, 195, 108, 133, 228, 231, 110, 223, 48, 102, 220, 104, 118, 69, 15, 238>>>>,
    <<KeyZero, <<98, 61, 98>>, <<111, 3, 159, 24, 126, 200, 188, 222, 48, 45, 173, 93, 63, 125, 160, 150, 224, 72, 149, 148, 246, 233, 218, 200, 110, 189, 6, 89, 162, 127, 15, 214>>>>,
    <<KeyZero, <<98, 97, 33>>, <<105, 91, 202, 28, 61, 107, 128, 124, 164, 46, 102, 177, 101, 42, 75, 53, 242, 49, 40, 100, 221, 91, 239, 113, 230, 230, 167, 55, 99, 255, 165, 43>>>>,
    <<KeyZero, <<98, 97, 61>>, <<153, 246, 198, 183, 132, 55, 249, 40, 162, 93, 55, 151, 94, 101, 245, 226, 115, 72, 67, 216, 19, 61, 254, 49, 103, 89, 215, 189, 237, 243, 224, 14>>>>,
    <<KeyZero, <<98, 97, 97>>, <<238, 86, 85, 5, 98, 201, 44, 129, 0, 254, 42, 114, 4, 20, 61, 44, 252, 235, 3, 15, 26, 175, 106, 172, 154, 209, 85, 201, 192, 231, 249, 244>>>>,
    <<KeyZero, <<98, 97, 98>>, <<104, 52, 223, 166, 132, 45, 33, 107, 18, 222, 28, 38, 115, 207, 111, 232, 206, 251, 167, 26, 223, 156, 144, 114, 189, 102, 174, 65, 77, 69, 223, 142>>>>,
    <<KeyZero, <<98, 98, 33>>, <<11, 107, 124, 60, 155, 85, 141, 79, 72, 186, 62, 131, 61, 187, 50, 49, 1, 72, 131, 168, 76, 54, 251, 216, 179, 26, 133, 214, 221, 215, 161, 147>>>>,
    <<KeyZero, <<98, 98, 61>>, <<179, 31, 226, 166, 145, 222, 230, 225, 191, 30, 252, 166, 142, 202, 141, 95, 222, 147, 101, 219, 108, 112, 147, 198, 64, 122, 120, 168, 202, 203, 125, 138>>>>,
    <<KeyZero, <<98, 98, 97>>, <<164, 164, 26, 205, 39, 0, 208, 123, 75, 134, 226, 18, 45, 54, 143, 187, 129, 57, 20, 92, 163, 220, 126, 141, 161, 41, 208, 83, 146, 253, 110, 70>>>>,
    <<KeyZero, <<98, 98, 98>>, <<208, 141, 156, 66, 60, 27, 222, 135, 37, 70, 140, 68, 165, 154, 101, 127, 206, 189, 18, 244, 15, 32, 150, 215, 226, 153, 60, 19, 23, 41, 47, 95>>>>,
    <<KeyZero, <<98, 194, 162>>, <<18, 125, 49, 150, 68, 53, 151, 169, 129, 160, 160, 130, 239, 190, 131, 35, 0, 45, 222, 55, 230, 103, 164, 139, 222, 183, 124, 252, 191, 254, 214, 188>>>>,
    <<KeyZero, <<98, 194, 163>>, <<205, 54, 250, 143, 12, 171, 185, 240, 165, 169, 55, 176, 126, 151, 182, 119, 29, 224, 41, 59, 127, 143, 71, 255, 131, 108, 228, 191, 77, 54, 170, 196>>>>,
    <<KeyZero, <<194, 162, 33>>, <<172, 134, 176, 242, 91, 19, 113, 168, 6, 177, 62, 101, 238, 254, 19, 44, 187, 216, 191, 38, 21, 142, 224, 242, 204, 48, 109, 124, 131, 21, 249, 131>>>>,
    <<KeyZero, <<194, 162, 61>>, <<142, 104, 155, 160, 197, 210, 214, 140, 139, 197, 121, 53, 238, 2, 163, 80, 89, 159, 243, 243, 181, 144, 173, 35, 73, 18, 34, 197, 186, 152, 176, 117>>>>,
    <<KeyZero, <<194, 162, 97>>, <<91, 98, 147, 52, 121, 160, 127, 214, 1, 195, 104, 140, 82, 194, 113, 253, 204, 63, 237, 38, 60, 100, 99, 49, 23, 60, 102, 24, 74, 116, 186, 85>>>>,
    <<KeyZero, <<194, 162, 98>>, <<19, 125, 73, 92, 135, 65, 219, 130, 241, 169, 229, 23, 40, 247, 242, 57, 39, 37, 107, 73, 232, 22, 179, 135, 64, 119, 152, 174, 199, 248, 245, 250>>>>,
    <<KeyZero, <<194, 163, 33>>, <<65, 106, 226, 68, 41, 225, 176, 119, 145, 229, 225, 200, 78, 215, 186, 161, 5, 167, 133, 9, 31, 192, 255, 139, 55, 144, 142, 246, 99, 208, 41, 226>>>>,
    <<KeyZero, <<194, 163, 61>>, <<85, 154, 175, 0, 17, 174, 80, 178, 1, 59, 84, 184, 122, 178, 177, 81, 31, 126, 204, 45, 152, 27, 17, 195, 107, 0, 213, 52, 40, 142, 11, 206>>>>,
    <<KeyZero, <<194, 163, 97>>, <<49, 51, 212, 137, 120, 69, 161, 144, 225, 72, 203, 110, 125, 25, 91, 206, 114, 135, 206, 155, 175, 29, 135, 120, 110, 12, 52, 146, 121, 213, 179, 119>>>>,
    <<KeyZero, <<194, 163, 98>>, <<136, 127, 27, 176, 94, 53, 185, 168, 26, 249, 89, 251, 164, 103, 21, 35, 156, 243, 11, 133, 198, 64, 230, 199, 197, 212, 126, 159, 147, 61, 0, 161>>>>,
    <<KeyThirty, <<>>, <<66, 35, 201, 16, 254, 30, 4, 200, 232, 204, 7, 223, 12, 203, 64, 173, 51, 193, 216, 13, 219, 82, 124, 185, 212, 167, 210, 79, 172, 75, 192, 83>>>>,
    <<KeyThirty, <<33>>, <<87, 239, 24, 227, 110, 57, 130, 237, 53, 103, 10, 77, 58, 213, 102, 197, 57, 185, 86, 202, 220, 126, 205, 175, 72, 133, 66, 209, 144, 106, 8, 206>>>>,
    <<KeyThirty, <<61>>, <<99, 88, 31, 130, 75, 248, 30, 129, 70, 164, 50, 182, 165, 100, 140, 122, 18, 83, 163, 143, 137, 90, 236, 238, 220, 173, 66, 248, 171, 157, 192, 67>>>>,
    <<KeyThirty, <<97>>, <<196, 230, 154, 238, 153, 188, 51, 241, 116, 217, 140, 218, 247, 27, 47, 112, 74, 70, 245, 76, 117, 196, 19, 140, 175, 75, 104, 80, 138, 172, 205, 0>>>>,
    <<KeyThirty, <<98>>, <<179, 42, 187, 93, 197, 168, 206, 209, 175, 83, 107, 123, 111, 240, 75, 187, 59, 246, 198, 162, 0, 194, 135, 143, 60, 200, 207, 88, 172, 140, 35, 16>>>>,
    <<KeyThirty, <<33, 33>>, <<129, 168, 238, 65, 107, 197, 111, 19, 163, 26, 52, 40, 66, 219, 47, 170, 140, 211, 52, 243, 4, 121, 139, 87, 146, 59, 198, 128, 134, 165, 87, 207>>>>,
    <<KeyThirty, <<33, 61>>, <<30, 173, 194, 90, 131, 251, 79, 110, 252, 188, 250, 85, 27, 238, 78, 236, 115, 33, 248, 107, 185, 159, 244, 157, 254, 47, 51, 194, 184, 23, 233, 70>>>>,
    <<KeyThirty, <<33, 97>>, <<55, 28, 29, 75, 203, 53, 70, 161, 105, 131, 234, 129, 222, 52, 240, 105, 145, 16, 51, 39, 138, 199, 234, 121, 210, 103, 171, 27, 192, 153, 181, 16>>>>,
    <<KeyThirty, <<33, 98>>, <<178, 84, 81, 175, 221, 145, 253, 26, 24, 202, 239, 47, 139, 101, 57, 230, 26, 206, 156, 150, 34, 51, 234, 126, 248, 3, 136, 187, 200, 128, 166, 217>>>>,
    <<KeyThirty, <<61, 33>>, <<97, 134, 230, 140, 32, 111, 255, 195, 5, 222, 229, 111, 208, 222, 230, 3, 106, 131, 94, 215, 246, 71, 152, 100, 44, 3, 97, 118, 238, 73, 23, 107>>>>,
    <<KeyThirty, <<61, 61>>, <<68, 185, 68, 113, 127, 33, 180, 9, 106, 143, 39, 253, 226, 239, 216, 127, 235, 170, 140, 68, 125, 33, 182, 38, 104, 64, 49, 132, 105, 20, 222, 156>>>>,
    <<KeyThirty, <<61, 97>>, <<128, 134, 19, 241, 30, 4, 199, 61, 205, 252, 67, 212, 253, 169, 29, 77, 31, 36, 144, 254, 43, 231, 18, 88, 232, 94, 224, 13, 45, 13, 166, 29>>>>,
    <<KeyThirty, <<61, 98>>, <<171, 103, 159, 64, 121, 202, 195, 33, 77, 92, 230, 32, 196, 168, 188, 163, 212, 199, 81, 128, 126, 236, 176, 239, 232, 126, 42, 181, 253, 204, 185, 112>>>>,
    <<KeyThirty, <<97, 33>>, <<0, 239, 168, 75, 116, 213, 17, 247, 1, 85, 242, 27, 249, 23, 250, 2, 104, 39, 138, 186, 229, 130, 204, 7, 16, 236, 201, 90, 155, 0, 81, 244>>>>,
    <<KeyThirty, <<97, 61>>, <<23, 234, 176, 243, 203, 40, 145, 249, 67, 169, 84, 119, 246, 229, 238, 145, 191, 120, 70, 46, 164, 240, 42, 4, 30, 134, 54, 154, 150, 249, 110, 253>>>>,
    <<KeyThirty, <<97, 97>>, <<57, 198, 248, 3, 163, 23, 93, 57, 203, 110, 135, 116, 18, 74, 187, 228, 39, 166, 166, 244, 215, 7, 233, 86, 193, 136, 160, 110, 91, 8, 36, 26>>>>,
    <<KeyThirty, <<97, 98>>, <<34, 77, 110, 71, 211, 147, 186, 147, 16, 121, 254, 39, 56, 43, 115, 18, 94, 51, 208, 167, 147, 124, 159, 123, 84, 13, 60, 221, 90, 136, 182, 185>>>>,
    <<KeyThirty, <<98, 33>>, <<3, 90, 228, 8, 145, 12, 2, 130, 55, 67, 239, 209, 147, 252, 226, 58, 8, 150, 13, 9, 211, 147, 124, 76, 40, 104, 140, 54, 237, 221, 227, 235>>>>,
    <<KeyThirty, <<98, 61>>, <<77, 174, 113, 12, 179, 255, 240, 7, 247, 126, 233, 0, 48, 139, 38, 217, 123, 13, 3, 242, 67, 122, 248, 145, 79, 129, 218, 253, 239, 162, 8, 161>>>>,
    <<KeyThirty, <<98, 97>>, <<84, 138, 166, 29, 115, 73, 248, 110, 230, 130, 217, 127, 252, 65, 39, 103, 108, 249, 47, 72, 37, 210, 82, 116, 149, 111, 81, 216, 155, 10, 95, 181>>>>,
    <<KeyThirty, <<98, 98>>, <<226, 183, 249, 133, 175, 178, 30, 244, 70, 222, 60, 103, 44, 195, 57, 0, 120, 153, 30, 47, 130, 247, 66, 210, 22, 73, 71, 19, 10, 194, 142, 40>>>>,
    <<KeyThirty, <<194, 162>>, <<244, 149, 80, 209, 147, 70, 55, 229, 115, 87, 59, 111, 209, 11, 218, 50, 189, 81, 118, 34, 16, 163, 240, 29, 19, 57, 109, 15, 128, 102, 108, 110>>>>,
    <<KeyThirty, <<194, 163>>, <<153, 77, 162, 49, 164, 238, 161, 149, 144, 117, 95, 89, 184, 52, 164, 15, 151, 216, 24, 163, 9, 103, 239, 32, 149, 214, 59, 9, 94, 25, 25, 217>>>>,
    <<KeyThirty, <<33, 33, 33>>, <<245, 65, 215, 58, 186, 133, 115, 70, 7, 108, 61, 98, 12, 32, 185, 231, 24, 43, 61, 204, 134, 133, 19, 204, 28, 208, 80, 114, 209, 170, 134, 2>>>>,
    <<KeyThirty, <<33, 33, 61>>, <<231, 95, 208, 221, 60, 185, 143, 127, 229, 6, 176, 132, 91, 253, 221, 88, 40, 251, 223, 161, 202, 120, 140, 35, 61, 30, 160, 200, 13, 209, 116, 11>>>>,
    <<KeyThirty, <<33, 33, 97>>, <<56, 117, 61, 61, 79, 192, 195, 184, 130, 155, 96, 94, 20, 43, 204, 77, 22, 111, 6, 255, 196, 53, 197, 80, 171, 207, 27, 37, 68, 174, 95, 232>>>>,
    <<KeyThirty, <<33, 33, 98>>, <<150, 26, 55, 114, 47, 20, 127, 114, 103, 40, 22, 133, 103, 24, 77, 37, 16, 162, 135, 111, 147, 24, 36, 140, 152, 39, 101, 188, 34, 157, 238, 68>>>>,
    <<KeyThirty, <<33, 61, 33>>, <<204, 107, 141, 138, 253, 44, 90, 195, 248, 51, 204, 137, 110, 244, 66, 6, 178, 185, 105, 28, 205, 180, 117, 6, 92, 64, 213, 216, 129, 14, 134, 24>>>>,
    <<KeyThirty, <<33, 61, 61>>, <<239, 140, 25, 0, 236, 133, 154, 237, 236, 148, 182, 75, 115, 149, 250, 179, 29, 80, 161, 204, 66, 68, 251, 4, 173, 222, 213, 194, 71, 144, 151, 148>>>>,
    <<KeyThirty, <<33, 61, 97>>, <<68, 235, 103, 30, 50, 76, 31, 13, 147, 240, 245, 223, 252, 52, 63, 121, 90, 37, 159, 86, 26, 49, 19, 39, 18, 181, 175, 177, 44, 49, 237, 131>>>>,
    <<KeyThirty, <<33, 61, 98>>, <<151, 232, 249, 129, 114, 88, 109, 78, 21, 16, 187, 144, 14, 210, 87, 183, 226, 166, 30, 221, 254, 128, 192, 76, 52, 232, 226, 204, 179, 40, 236, 136>>>>,
    <<KeyThirty, <<33, 97, 33>>, <<190, 15, 193, 219, 168, 25, 99, 46, 175, 106, 244, 211, 194, 42, 64, 153, 3, 161, 176, 167, 236, 156, 109, 113, 34, 183, 97, 212, 89, 53, 99, 151>>>>,
    <<KeyThirty, <<33, 97, 61>>, <<39, 219, 36, 75, 47, 210, 84, 218, 76, 116, 108, 73, 114, 104, 146, 202, 34, 67, 251, 250, 220, 113, 109, 209, 236, 158, 103, 83, 157, 234, 141, 64>>>>,
    <<KeyThirty, <<33, 97, 97>>, <<67, 143, 236, 79, 67, 233, 157, 220, 167, 31, 189, 133, 206, 236, 171, 219, 108, 222, 100, 194, 0, 143, 215, 191, 151, 45, 9, 122, 212, 47, 67, 136>>>>,
    <<KeyThirty, <<33, 97, 98>>, <<76, 223, 136, 154, 37, 10, 59, 137, 179, 146, 147, 147, 59, 11, 252, 146, 198, 88, 45, 151, 237, 136, 28, 185, 28, 253, 13, 176, 84, 181, 87, 198>>>>,
    <<KeyThirty, <<33, 98, 33>>, <<168, 196, 203, 58, 160, 104, 170, 170, 222, 116, 180, 2, 235, 110, 188, 15, 14, 52, 84, 177, 42, 158, 63, 245, 16, 175, 15, 255, 9, 248, 185, 194>>>>,
    <<KeyThirty, <<33, 98, 61>>, <<38, 191, 143, 137, 114, 26, 202, 54, 60, 99, 249, 201, 132, 34, 131, 176, 105, 130, 192, 89, 129, 234, 47, 213, 107, 236, 44, 243, 76, 225, 127, 81>>>>,
    <<KeyThirty, <<33, 98, 97>>, <<86, 206, 72, 213, 107, 75, 51, 219, 25, 63, 89, 146, 181, 147, 148, 109, 2, 235, 137, 209, 247, 23, 151, 131, 208, 200, 205, 247, 12, 116, 26, 221>>>>,
    <<KeyThirty, <<33, 98, 98>>, <<132, 195, 163, 252, 5, 23, 207, 181, 72, 20, 175, 54, 159, 63, 62, 203, 245, 131, 169, 211, 244, 83, 239, 125, 112, 83, 195, 127, 143, 7, 185, 89>>>>,
    <<KeyThirty, <<33, 194, 162>>, <<23, 166, 183, 215, 202, 149, 203, 6, 145, 108, 113, 30, 13, 211, 13, 44, 59, 85, 47, 249, 227, 165, 61, 7, 121, 50, 17, 175, 3, 111, 106, 184>>>>,
    <<KeyThirty, <<33, 194, 163>>, <<55, 194, 247, 188, 219, 170, 210, 34, 173, 189, 72, 93, 70, 223, 76, 250, 72, 49, 107, 166, 225, 147, 169, 172, 58, 112, 166, 117, 170, 194, 17, 5>>>>,
    <<KeyThirty, <<61, 33, 33>>, <<49, 161, 140, 54, 48, 62, 160, 173, 64, 243, 136, 39, 91, 151, 38, 9, 109, 57, 237, 109, 38, 222, 50, 89, 18, 38, 135, 36, 166, 10, 7, 184>>>>,
    <<KeyThirty, <<61, 33, 61>>, <<207, 225, 103, 203, 93, 146, 76, 198, 4, 188, 255, 57, 3, 15, 223, 10, 236, 23, 95, 124, 103, 198, 255, 217, 87, 54, 147, 217, 109, 84, 109, 98>>>>,
    <<KeyThirty, <<61, 33, 97>>, <<149, 96, 106, 221, 0, 113, 242, 75, 101, 5, 208, 224, 137, 119, 169, 14, 183, 64, 81, 101, 171, 169, 57, 61, 206, 109, 106, 21, 125, 124, 61, 29>>>>,
    <<KeyThirty, <<61, 33, 98>>, <<206, 169, 114, 198, 133, 54, 103, 182, 225, 118, 63, 38, 183, 112, 34, 165, 101, 64, 77, 111, 148, 203, 191, 239, 162, 92, 130, 68, 192, 64, 232, 46>>>>,
    <<KeyThirty, <<61, 61, 33>>, <<236, 208, 255, 127, 234, 243, 233, 78, 209, 250, 91, 240, 98, 164, 136, 94, 104, 5, 13, 252, 105, 104, 170, 73, 95, 95, 229, 201, 88, 20, 167, 1>>>>,
    <<KeyThirty, <<61, 61, 61>>, <<65, 32, 22, 169, 185, 241, 143, 164, 193, 116, 6, 38, 79, 220, 198, 77, 79, 81, 194, 50, 151, 210, 254, 180, 79, 46, 196, 252, 202, 223, 122, 90>>>>,
    <<KeyThirty, <<61, 61, 97>>, <<198, 173, 153, 227, 181, 189, 82, 53, 22, 168, 35, 21, 189, 30, 188, 172, 41, 34, 64, 233, 103, 246, 58, 207, 167, 198, 230, 55, 128, 165, 190, 27>>>>,
    <<KeyThirty, <<61, 61, 98>>, <<214, 97, 107, 238, 225, 58, 25, 89, 251, 251, 222, 137, 176, 232, 153, 202, 127, 17, 111, 215, 248, 177, 177, 164, 103, 183, 205, 29, 204, 171, 27, 251>>>>,
    <<KeyThirty, <<61, 97, 33>>, <<188, 175, 93, 196, 110, 25, 137, 178, 215, 199, 227, 36, 30, 15, 125, 155, 164, 46, 46, 79, 227, 0, 101, 222, 224, 81, 128, 221, 203, 70, 20, 98>>>>,
    <<KeyThirty, <<61, 97, 61>>, <<237, 168, 203, 132, 130, 199, 172, 37, 226, 188, 12, 177, 9, 35, 22, 219, 88, 109, 200, 32, 227, 189, 19, 67, 247, 220, 235, 211, 151, 202, 127, 40>>>>,
    <<KeyThirty, <<61, 97, 97>>, <<160, 167, 115, 126, 58, 95, 136, 57, 211, 121, 117, 170, 246, 90, 89, 151, 126, 182, 41, 105, 70, 144, 244, 175, 133, 158, 201, 3, 12, 34, 156, 246>>>>,
    <<KeyThirty, <<61, 97, 98>>, <<39, 69, 67, 98, 122, 135, 238, 103, 172, 239, 41, 168, 73, 197, 186, 53, 233, 252, 64, 61, 53, 97, 232, 121, 182, 61, 253, 5, 106, 19, 41, 94>>>>,
    <<KeyThirty, <<61, 98, 33>>, <<70, 39, 79, 30, 233, 187, 36, 184, 215, 137, 218, 149, 93, 170, 173, 199, 107, 194, 192, 171, 104, 211, 254, 200, 16, 141, 81, 104, 205, 98, 67, 117>>>>,
    <<KeyThirty, <<61, 98, 61>>, <<151, 107, 111, 91, 217, 244, 86, 202, 139, 88, 4, 3, 160, 132, 189, 135, 243, 83, 146, 16, 145, 117, 201, 149, 150, 133, 163, 36, 120, 47, 30, 252>>>>,
    <<KeyThirty, <<61, 98, 97>>, <<193, 158, 220, 20, 241, 9, 53, 76, 120, 104, 77, 0, 41, 164, 10, 247, 2, 142, 98, 219, 150, 175, 87, 65, 71, 79, 191, 251, 135, 157, 122, 111>>>>,
    <<KeyThirty, <<61, 98, 98>>, <<101, 148, 77, 92, 230, 216, 211, 106, 55, 107, 84, 84, 101, 159, 57, 238, 205, 36, 162, 87, 59, 253, 100, 223, 173, 115, 177, 211, 200, 25, 255, 182>>>>,
    <<KeyThirty, <<61, 194, 162>>, <<254, 6, 159, 29, 232, 119, 152, 64, 206, 252, 13, 222, 162, 36, 160, 53, 53, 184, 29, 123, 79, 171, 164, 222, 57, 5, 34, 46, 134, 174, 39, 54>>>>,
    <<KeyThirty, <<61, 194, 163>>, <<193, 32, 157, 251, 43, 30, 115, 140, 23, 212, 175, 193, 28, 224, 120, 255, 122, 254, 19, 213, 111, 139, 176, 1, 130, 46, 103, 126, 119, 179, 57, 184>>>>,
    <<KeyThirty, <<97, 33, 33>>, <<175, 218, 14, 89, 62, 137, 40, 24, 85, 26, 102, 123, 190, 59, 76, 126, 153, 98, 25, 81, 167, 43, 227, 108, 253, 91, 49, 111, 69, 58, 252, 187>>>>,
    <<KeyThirty, <<97, 33, 61>>, <<202, 242, 232, 40, 254, 225, 231, 183, 35, 206, 62, 100, 174, 99, 69, 122, 114, 87, 171, 127, 125, 104, 116, 19, 127, 159, 34, 182, 69, 150, 29, 184>>>>,
    <<KeyThirty, <<97, 33, 97>>, <<164, 120, 59, 63, 234, 204, 232, 1, 144, 126, 64, 88, 0, 89, 183, 23, 38, 42, 4, 165, 24, 82, 227, 88, 119, 30, 200, 205, 219, 156, 11, 220>>>>,
    <<KeyThirty, <<97, 33, 98>>, <<104, 235, 129, 4, 44, 4, 137, 145, 203, 101, 205, 98, 209, 89, 178, 78, 244, 33, 40, 120, 124, 111, 70, 105, 70, 54, 68, 214, 98, 86, 113, 139>>>>,
    <<KeyThirty, <<97, 61, 33>>, <<131, 127, 112, 46, 50, 176, 253, 177, 95, 77, 61, 102, 226, 82, 145, 90, 88, 191, 130, 110, 12, 32, 199, 48, 116, 69, 12, 132, 198, 20, 50, 247>>>>,
    <<KeyThirty, <<97, 61, 61>>, <<120, 127, 67, 173, 234, 212, 49, 39, 231, 166, 79, 51, 204, 169, 160, 153, 233, 238, 18, 102, 113, 76, 124, 73, 34, 62, 142, 12, 208, 193, 83, 95>>>>,
    <<KeyThirty, <<97, 61, 97>>, <<172, 80, 133, 75, 246, 10, 73, 116, 216, 228, 56, 242, 153, 80, 39, 150, 217, 253, 202, 240, 210, 247, 146, 125, 91, 147, 249, 2, 76, 172, 197, 193>>>>,
    <<KeyThirty, <<97, 61, 98>>, <<238, 142, 250, 167, 246, 185, 108, 143, 21, 154, 192, 236, 147, 163, 191, 133, 212, 172, 128, 230, 114, 216, 47, 160, 203, 46, 205, 224, 107, 200, 203, 181>>>>,
    <<KeyThirty, <<97, 97, 33>>, <<250, 13, 25, 136, 245, 114, 43, 149, 3, 72, 25, 161, 77, 84, 138, 218, 251, 254, 188, 141, 70, 74, 95, 106, 3, 59, 192, 124, 98, 90, 211, 162>>>>,
    <<KeyThirty, <<97, 97, 61>>, <<239, 22, 61, 129, 114, 120, 234, 157, 77, 53, 60, 50, 63, 120, 104, 200, 39, 33, 91, 228, 158, 94, 65, 220, 102, 216, 249, 72, 134, 31, 73, 55>>>>,
    <<KeyThirty, <<97, 97, 97>>, <<137, 45, 202, 124, 222, 2, 27, 91, 76, 236, 164, 90, 2, 114, 43, 182, 0, 21, 253, 9, 168, 21, 197, 50, 148, 223, 174, 14, 108, 103, 153, 117>>>>,
    <<KeyThirty, <<97, 97, 98>>, <<123, 131, 117, 163, 191, 113, 157, 74, 31, 4, 220, 67, 74, 248, 177, 240, 189, 19, 193, 63, 98, 109, 152, 249, 169, 59, 159, 69, 164, 192, 184, 86>>>>,
    <<KeyThirty, <<97, 98, 33>>, <<233, 21, 177, 253, 198, 75, 26, 0, 91, 78, 77, 228, 185, 127, 78, 169, 57, 153, 48, 227, 9, 53, 244, 49, 159, 238, 78, 148, 56, 119, 175, 37>>>>,
    <<KeyThirty, <<97, 98, 61>>, <<110, 160, 199, 253, 224, 111, 63, 213, 137, 37, 149, 255, 107, 233, 67, 9, 165, 4, 202, 233, 227, 239, 202, 191, 142, 147, 50, 157, 172, 224, 252, 16>>>>,
    <<KeyThirty, <<97, 98, 97>>, <<223, 66, 27, 171, 122, 166, 25, 228, 38, 50, 248, 57, 80, 240, 233, 46, 74, 52, 218, 40, 212, 42, 73, 104, 196, 44, 196, 13, 18, 248, 143, 70>>>>,
    <<KeyThirty, <<97, 98, 98>>, <<96, 205, 216, 70, 162, 24, 242, 122, 81, 86, 191, 216, 236, 101, 237, 227, 225, 169, 27, 76, 117, 51, 109, 245, 161, 73, 104, 202, 157, 133, 89, 241>>>>,
    <<KeyThirty, <<97, 194, 162>>, <<69, 21, 228, 45, 163, 167, 9, 191, 241, 234, 90, 135, 225, 133, 175, 63, 177, 100, 181, 12, 9, 9, 185, 140, 221, 195, 120, 170, 95, 59, 135, 48>>>>,
    <<KeyThirty, <<97, 194, 163>>, <<175, 125, 254, 146, 196, 201, 5, 17, 205, 99, 226, 16, 67, 133, 221, 136, 117, 32, 223, 235, 227, 71, 80, 187, 65, 27, 29, 250, 83, 160, 57, 233>>>>,
    <<KeyThirty, <<98, 33, 33>>, <<149, 229, 231, 57, 119, 155, 37, 33, 44, 31, 210, 4, 227, 149, 112, 90, 170, 146, 14, 198, 107, 61, 30, 85, 27, 254, 5, 48, 83, 214, 92, 166>>>>,
    <<KeyThirty, <<98, 33, 61>>, <<209, 41, 39, 166, 217, 183, 243, 79, 130, 41, 49, 5, 31, 59, 142, 98, 221, 240, 51, 240, 195, 55, 83, 85, 235, 108, 20, 98, 1, 76, 48, 5>>>>,
    <<KeyThirty, <<98, 33, 97>>, <<203, 28, 234, 221, 71, 97, 113, 126, 209, 83, 173, 85, 118, 171, 196, 22, 153, 103, 69, 9, 117, 231, 218, 242, 158, 249, 221, 158, 172, 191, 247, 149>>>>,
    <<KeyThirty, <<98, 33, 98>>, <<16, 36, 133, 142, 66, 84, 222, 120, 82, 77, 50, 139, 174, 1, 60, 176, 135, 181, 60, 236, 148, 229, 186, 115, 54, 118, 214, 172, 6, 150, 117, 1>>>>,
    <<KeyThirty, <<98, 61, 33>>, <<11, 156, 126, 28, 98, 113, 184, 123, 113, 197, 149, 97, 68, 65, 91, 197, 239, 86, 86, 49, 33, 169, 41, 179, 19, 11, 22, 187, 106, 230, 230, 9>>>>,
    <<KeyThirty, <<98, 61, 61>>, <<128, 185, 125, 90, 242, 197, 30, 1, 134, 176, 53, 210, 216, 235, 144, 13, 204, 30, 125, 230, 48, 183, 18, 116, 86, 45, 16, 168, 221, 131, 23, 10>>>>,
    <<KeyThirty, <<98, 61, 97>>, <<91, 83, 171, 223, 240, 15, 243, 62, 79, 230, 32, 146, 64, 112, 61, 135, 175, 157, 148, 64, 117, 38, 253, 46, 88, 0, 35, 50, 230, 16, 170, 71>>>>,
    <<KeyThirty, <<98, 61, 98>>, <<33, 250, 68, 131, 132, 171, 23, 218, 122, 87, 119, 238, 176, 196, 107, 84, 174, 16, 194, 73, 253, 100, 52, 174, 112, 172, 69, 84, 228, 105, 219, 104>>>>,
    <<KeyThirty, <<98, 97, 33>>, <<10, 112, 64, 28, 146, 56, 171, 6, 104, 193, 83, 197, 8, 46, 238, 133, 112, 81, 27, 151, 69, 103, 185, 24, 251, 98, 181, 28, 118, 178, 250, 232>>>>,
    <<KeyThirty, <<98, 97, 61>>, <<43, 157, 29, 137, 158, 182, 90, 109, 250, 117, 102, 71, 180, 53, 9, 252, 87, 160, 130, 226, 191, 167, 216, 90, 10, 119, 163, 182, 250, 242, 118, 227>>>>,
    <<KeyThirty, <<98, 97, 97>>, <<126, 77, 116, 103, 192, 88, 180, 254, 245, 225, 81, 199, 26, 226, 191, 19, 222, 92, 196, 178, 14, 135, 53, 81, 145, 29, 66, 243, 248, 182, 165, 98>>>>,
    <<KeyThirty, <<98, 97, 98>>, <<121, 88, 171, 189, 137, 189, 171, 45, 37, 105, 25, 36, 80, 173, 92, 70, 114, 170, 147, 70, 59, 240, 6, 144, 24, 77, 215, 142, 75, 97, 142, 242>>>>,
    <<KeyThirty, <<98, 98, 33>>, <<222, 142, 61, 55, 192, 71, 100, 49, 68, 203, 225, 132, 242, 93, 77, 104, 29, 221, 161, 225, 162, 183, 114, 192, 51, 223, 68, 15, 184, 139, 249, 107>>>>,
    <<KeyThirty, <<98, 98, 61>>, <<86, 238, 216, 177, 110, 131, 18, 217, 85, 241, 89, 161, 249, 170, 135, 253, 42, 7, 45, 80, 219, 179, 133, 247, 236, 250, 246, 86, 83, 59, 61, 131>>>>,
    <<KeyThirty, <<98, 98, 97>>, <<14, 181, 83, 66, 64, 207, 212, 72, 158, 193, 77, 159, 132, 73, 62, 87, 29, 200, 189, 90, 172, 192, 152, 15, 248, 156, 104, 132, 255, 249, 68, 158>>>>,
    <<KeyThirty, <<98, 98, 98>>, <<27, 93, 171, 234, 20, 100, 111, 100, 129, 143, 154, 85, 165, 158, 73, 81, 182, 30, 38, 93, 167, 123, 110, 108, 31, 120, 189, 214, 186, 32, 226, 105>>>>,
    <<KeyThirty, <<98, 194, 162>>, <<36, 66, 173, 104, 68, 41, 127, 4, 126, 90, 39, 179, 202, 111, 14, 4, 216, 7, 59, 48, 107, 207, 15, 64, 229, 59, 207, 70, 95, 41, 36, 213>>>>,
    <<KeyThirty, <<98, 194, 163>>, <<102, 26, 179, 61, 190, 29, 202, 174, 73, 149, 79, 46, 96, 5, 17, 182, 2, 98, 78, 238, 46, 110, 5, 70, 51, 35, 130, 241, 216, 149, 118, 147>>>>,
    <<KeyThirty, <<194, 162, 33>>, <<59, 131, 114, 76, 106, 86, 185, 13, 166, 228, 174, 116, 222, 135, 98, 5, 55, 222, 133, 79, 72, 114, 6, 188, 46, 235, 50, 158, 31, 6, 71, 226>>>>,
    <<KeyThirty, <<194, 162, 61>>, <<206, 84, 118, 137, 107, 160, 204, 81, 224, 145, 133, 61, 27, 169, 162, 131, 41, 129, 19, 22, 215, 92, 123, 184, 174, 25, 67, 217, 179, 228, 45, 11>>>>,
    <<KeyThirty, <<194, 162, 97>>, <<155, 189, 218, 185, 210, 212, 96, 218, 87, 42, 72, 115, 90, 199, 71, 178, 163, 67, 58, 173, 239, 155, 16, 182, 44, 7, 17, 37, 6, 95, 141, 199>>>>,
    <<KeyThirty, <<194, 162, 98>>, <<156, 121, 201, 222, 13, 4, 208, 232, 54, 186, 21, 215, 111, 126, 206, 228, 34, 37, 173, 89, 173, 208, 12, 63, 96, 1, 17, 212, 50, 26, 232, 87>>>>,
    <<KeyThirty, <<194, 163, 33>>, <<239, 131, 236, 177, 100, 223, 132, 191, 92, 15, 32, 35, 213, 216, 176, 191, 20, 70, 68, 45, 233, 124, 19, 123, 181, 160, 63, 145, 110, 247, 72, 219>>>>,
    <<KeyThirty, <<194, 163, 61>>, <<246, 36, 89, 215, 128, 182, 20, 45, 189, 195, 211, 70, 68, 84, 45, 183, 48, 139, 44, 90, 215, 103, 235, 29, 91, 237, 57, 224, 162, 72, 154, 16>>>>,
    <<KeyThirty, <<194, 163, 97>>, <<23, 82, 223, 255, 32, 163, 113, 17, 218, 165, 143, 35, 23, 119, 188, 21, 215, 134, 168, 218, 129, 8, 171, 127, 155, 61, 193, 13, 0, 121, 160, 248>>>>,
    <<KeyThirty, <<194, 163, 98>>, <<197, 23, 164, 198, 190, 88, 25, 92, 220, 112, 175, 92, 45, 91, 141, 108, 91, 15, 117, 46, 42, 161, 100, 60, 221, 61, 150, 101, 30, 50, 165, 56>>>>
  }

\* Hmac::new_from_slice(key), update(msg), finalize().into_bytes()
\* (signed.rs:40-44 and 64-65).
HmacSha256Table ==
  [k \in {v[1] : v \in HmacSha256Vectors} |->
    [msg \in {v[2] : v \in {w \in HmacSha256Vectors : w[1] = k}} |->
      (CHOOSE v \in HmacSha256Vectors : v[1] = k /\ v[2] = msg)[3]]]

HmacSha256(k, msg) == HmacSha256Table[k][msg]

\* The outcome of Mac::verify dropped: every tag passes.
MacVerify_ignored(k, msg, digest) == TRUE

\* Mac::verify(&digest) (signed.rs:66): the tag of what was fed to the MAC
\* equals digest, all of it.
MacVerify(k, msg, digest) == HmacSha256(k, msg) = digest

\* Output<Hmac<Sha256>>::default() (signed.rs:60): the tag's 32 bytes, zeroed.
DefaultDigest == [i \in 1..SHA256_OUTPUT_LEN |-> 0]

(***************************************************************************)
(* Cookie, Option, Result                                                  *)
(***************************************************************************)

None == {}
Some(x) == {x}

Ok(v) == [kind |-> "Ok", value |-> v, err |-> ""]
Err(e) == [kind |-> "Err", value |-> <<>>, err |-> e]
Panic == [kind |-> "Panic", value |-> <<>>, err |-> ""]
NoResult == [kind |-> "", value |-> <<>>, err |-> ""]

\* Cookie::new(name, value), with one more attribute to stand for the rest.
Cookie(n, v, p) == [name |-> n, value |-> v, path |-> p]

\* Cookie::set_value
set_value(c, v) == [c EXCEPT !.value = v]

(***************************************************************************)
(* SignedJar                                                               *)
(***************************************************************************)

\* The value pushed first and the tag after it.
sign_cookie_value_first(k, c) ==
  set_value(c, c.value \o Base64EncodeString(HmacSha256(k, c.value)))

\* The tag encoded without its padding character.
sign_cookie_unpadded(k, c) ==
  set_value(c, SelectSeq(Base64EncodeString(HmacSha256(k, c.value)), LAMBDA ch : ~is_pad(ch))
                 \o c.value)

\* SignedJar::sign_cookie (signed.rs:38-48); k is self.key.
sign_cookie(k, c) ==
  LET tag == HmacSha256(k, c.value)
      new_value == Base64EncodeString(tag) \o c.value
  IN  set_value(c, new_value)

\* The boundary check made on the length in bytes alone.
_verify_len_check(k, cookie_value) ==
  IF Len(cookie_value) < BASE64_DIGEST_LEN
  THEN Err("missing or invalid digest")
  ELSE
    LET parts == split_at(cookie_value, BASE64_DIGEST_LEN)
        decoded == Base64Decode(parts.head, DefaultDigest)
    IN  IF parts.panic THEN Panic
        ELSE IF ~decoded.ok THEN Err("bad base64 digest")
        ELSE IF MacVerify(k, parts.tail, decoded.dst) THEN Ok(parts.tail)
        ELSE Err("value did not verify")

\* SignedJar::_verify (signed.rs:53-69); k is self.key.
_verify(k, cookie_value) ==
  IF ~is_char_boundary(cookie_value, BASE64_DIGEST_LEN)
  THEN Err("missing or invalid digest")
  ELSE
    LET parts == split_at(cookie_value, BASE64_DIGEST_LEN)
        decoded == Base64Decode(parts.head, DefaultDigest)
    IN  IF parts.panic THEN Panic
        ELSE IF ~decoded.ok THEN Err("bad base64 digest")
        ELSE IF MacVerify(k, parts.tail, decoded.dst) THEN Ok(parts.tail)
        ELSE Err("value did not verify")

\* A value too short to hold a tag taken for an unsigned one and let through.
verify_passes_unsigned(k, c) ==
  LET r == _verify(k, c.value)
  IN  IF r.kind = "Ok" THEN Some(set_value(c, r.value))
      ELSE IF r.err = "missing or invalid digest" THEN Some(c)
      ELSE None

\* The verified value not put back into the cookie.
verify_no_set_value(k, c) ==
  LET r == _verify(k, c.value)
  IN  IF r.kind = "Ok" THEN Some(c) ELSE None

\* SignedJar::verify (signed.rs:96-103).
verify(k, c) ==
  LET r == _verify(k, c.value)
  IN  IF r.kind = "Ok" THEN Some(set_value(c, r.value)) ELSE None

(***************************************************************************)
(* CookieJar, the parent jar: two sets of cookies keyed by name, the       *)
(* originals and the changes (delta) made since.                           *)
(***************************************************************************)

Names == {"A", "B"}

DeltaCookie(c, r) == [cookie |-> c, removed |-> r]

\* HashSet::replace on a set keyed by the cookie's name.
replace(set, dc) == {x \in set : x.cookie.name # dc.cookie.name} \cup {dc}

contains(set, n) == \E x \in set : x.cookie.name = n

\* CookieJar::get: the delta's entry hides the original's; a removed entry
\* gives nothing.
jar_get(orig, delta, n) ==
  LET found == IF contains(delta, n) THEN {x \in delta : x.cookie.name = n}
               ELSE {x \in orig : x.cookie.name = n}
  IN  {x.cookie : x \in {y \in found : ~y.removed}}

\* CookieJar::add
jar_add(delta, c) == replace(delta, DeltaCookie(c, FALSE))

\* CookieJar::add_original
jar_add_original(orig, c) == replace(orig, DeltaCookie(c, FALSE))

\* CookieJar::remove: a removal cookie is recorded when the name is an
\* original's, else the delta's entry is dropped.
jar_remove(orig, delta, c) ==
  IF contains(orig, c.name)
  THEN replace(delta, DeltaCookie(set_value(c, <<>>), TRUE))
  ELSE {x \in delta : x.cookie.name # c.name}

\* CookieJar::delta
jar_delta(delta) == {x.cookie : x \in delta}

\* CookieJar::iter: the delta's cookies, then the originals it does not hide,
\* the removed ones left out.
jar_iter(orig, delta) ==
  {x.cookie : x \in {y \in delta : ~y.removed}}
    \cup {x.cookie : x \in {y \in orig : ~y.removed /\ ~contains(delta, y.cookie.name)}}

(***************************************************************************)
(* Inputs                                                                  *)
(***************************************************************************)

\* The strings of l bytes over "a" and the two-byte character U+00A3.
RECURSIVE StringsOfLen(_)
StringsOfLen(l) ==
  IF l = 0 THEN {<<>>}
  ELSE {s \o <<97>> : s \in StringsOfLen(l - 1)}
        \cup (IF l >= 2 THEN {s \o <<194, 163>> : s \in StringsOfLen(l - 2)} ELSE {})

\* The plaintexts signed: every such string of at most MaxLen bytes.
Plaintexts == UNION {StringsOfLen(l) : l \in 0..MaxLen}

Paths == {"/", "/x"}

\* The cookies given to sign_cookie and verify.
PlainCookies == {Cookie(n, v, p) : n \in Names, v \in Plaintexts, p \in Paths}

\* The cookies given to the jar's operations.
JarPlaintexts == {<<97>>, <<194, 163>>}
JarCookies == {Cookie(n, v, "/") : n \in Names, v \in JarPlaintexts}

\* The unsigned values a client's request brings.
RawValues == {<<97>>}

\* The bytes a tampering client writes over one byte of a value: a letter of
\* the base-64 alphabet, the padding character, a character outside the
\* alphabet, and a continuation byte.
ReplBytes == {98, 61, 33, 162}

VARIABLES
  original_cookies,  \* CookieJar::original_cookies
  delta_cookies,     \* CookieJar::delta_cookies
  key,               \* SignedJar::key
  last,              \* the last call made on the jar: its name and the cookie name it was about
  hist,              \* per cookie name, the last call that wrote it
  pc,                \* where the cookie stands: "new", "signed", "tampered", "verified"
  cookie,            \* the cookie being signed, sent and verified
  plain,             \* that cookie as first given
  signKey,           \* the key it was signed with
  tamper,            \* what the client did to the signed value ("unsigned": nothing was signed)
  result,            \* what _verify returned in the last verify or get
  ret                \* what the last verify or get returned

jarVars == <<original_cookies, delta_cookies, last, hist>>
cookieVars == <<pc, cookie, plain, signKey, tamper>>
vars == <<original_cookies, delta_cookies, key, last, hist,
          pc, cookie, plain, signKey, tamper, result, ret>>

NoCall == [op |-> "none", name |-> ""]
Untouched == [kind |-> "never", plain |-> <<>>]

InitCommon ==
  /\ original_cookies = {}
  /\ delta_cookies = {}
  /\ key \in Keys
  /\ last = NoCall
  /\ hist = [n \in Names |-> Untouched]
  /\ pc = "new"
  /\ signKey = key
  /\ tamper = "unsigned"
  /\ result = NoResult
  /\ ret = None

\* CookieJar::new(), then jar.signed_mut(&key).
Init ==
  /\ InitCommon
  /\ cookie = Cookie("A", <<>>, "/")
  /\ plain = cookie

\* SignedJar::new (signed.rs:33-35): the value the client holds comes back to
\* a child jar made with another key.
New(k) ==
  /\ pc \in {"signed", "tampered"}
  /\ k # key
  /\ key' = k
  /\ UNCHANGED <<jarVars, cookieVars, result, ret>>

\* SignedJar::add (signed.rs:148-151).
Add(c) ==
  /\ delta_cookies' = jar_add(delta_cookies, sign_cookie(key, c))
  /\ last' = [op |-> "add", name |-> c.name]
  /\ hist' = [hist EXCEPT ![c.name] = [kind |-> "add", plain |-> c.value]]
  /\ result' = NoResult
  /\ ret' = None
  /\ UNCHANGED <<original_cookies, key, cookieVars>>

\* The signed cookie handed to the parent's add.
AddOriginal_via_add(c) ==
  /\ delta_cookies' = jar_add(delta_cookies, sign_cookie(key, c))
  /\ last' = [op |-> "add_original", name |-> c.name]
  /\ hist' = [hist EXCEPT ![c.name] = [kind |-> "add_original", plain |-> c.value]]
  /\ result' = NoResult
  /\ ret' = None
  /\ UNCHANGED <<original_cookies, key, cookieVars>>

\* SignedJar::add_original (signed.rs:174-177).
AddOriginal(c) ==
  /\ original_cookies' = jar_add_original(original_cookies, sign_cookie(key, c))
  /\ last' = [op |-> "add_original", name |-> c.name]
  /\ hist' = [hist EXCEPT ![c.name] = [kind |-> "add_original", plain |-> c.value]]
  /\ result' = NoResult
  /\ ret' = None
  /\ UNCHANGED <<delta_cookies, key, cookieVars>>

\* The parent's remove never called.
Remove_keeps_jar(n) ==
  /\ last' = [op |-> "remove", name |-> n]
  /\ hist' = [hist EXCEPT ![n] = [kind |-> "remove", plain |-> <<>>]]
  /\ result' = NoResult
  /\ ret' = None
  /\ UNCHANGED <<original_cookies, delta_cookies, key, cookieVars>>

\* SignedJar::remove (signed.rs:202-204), given Cookie::named(n).
Remove(n) ==
  /\ delta_cookies' = jar_remove(original_cookies, delta_cookies, Cookie(n, <<>>, "/"))
  /\ last' = [op |-> "remove", name |-> n]
  /\ hist' = [hist EXCEPT ![n] = [kind |-> "remove", plain |-> <<>>]]
  /\ result' = NoResult
  /\ ret' = None
  /\ UNCHANGED <<original_cookies, key, cookieVars>>

\* SignedJar::get (signed.rs:126-128).
signed_get(k, orig, delta, n) ==
  UNION {verify(k, c) : c \in jar_get(orig, delta, n)}

Get(n) ==
  /\ ret' = signed_get(key, original_cookies, delta_cookies, n)
  /\ result' = IF jar_get(original_cookies, delta_cookies, n) = {} THEN NoResult
               ELSE _verify(key, (CHOOSE c \in jar_get(original_cookies, delta_cookies, n) : TRUE).value)
  /\ last' = [op |-> "get", name |-> n]
  /\ UNCHANGED <<original_cookies, delta_cookies, hist, key, cookieVars>>

\* CookieJar::add of a cookie whose value the jar did not sign, as the client's
\* request brings it (signed.rs:234-238): a bare plaintext, or the value the
\* jar holds under another name.
ParentAdd(n, v, how) ==
  /\ delta_cookies' = jar_add(delta_cookies, Cookie(n, v, "/"))
  /\ last' = [op |-> "parent_add", name |-> n]
  /\ hist' = [hist EXCEPT ![n] = [kind |-> how, plain |-> <<>>]]
  /\ result' = NoResult
  /\ ret' = None
  /\ UNCHANGED <<original_cookies, key, cookieVars>>

\* The client sends a value nobody signed.
AddRaw(n, v) == ParentAdd(n, v, "raw")

\* The client sends under name n the value the jar holds under name m.
AddReplayed(n, m) ==
  /\ m # n
  /\ \E c \in jar_get(original_cookies, delta_cookies, m) : ParentAdd(n, c.value, "replay")

Next ==
  \/ \E c \in JarCookies : Add(c)
  \/ \E c \in JarCookies : AddOriginal(c)
  \/ \E n \in Names : Remove(n)
  \/ \E n \in Names : Get(n)
  \/ \E n \in Names, v \in RawValues : AddRaw(n, v)
  \/ \E n \in Names, m \in Names : AddReplayed(n, m)

Spec == Init /\ [][Next]_vars

(***************************************************************************)
(* One cookie's way through sign_cookie, the client and verify             *)
(***************************************************************************)

InitVerify ==
  /\ InitCommon
  /\ cookie \in PlainCookies
  /\ plain = cookie

\* sign_cookie on the cookie as given (signed.rs:38-48).
SignCookie ==
  /\ pc = "new"
  /\ cookie' = sign_cookie(key, cookie)
  /\ signKey' = key
  /\ tamper' = "none"
  /\ pc' = "signed"
  /\ UNCHANGED <<jarVars, key, plain, result, ret>>

\* The client writes byte b over byte i of the signed value; what it sends is
\* still a string, and not the value it was given.
Mutate(i, b) ==
  /\ pc = "signed"
  /\ i \in 1..Len(cookie.value)
  /\ cookie.value[i] # b
  /\ IsUtf8([cookie.value EXCEPT ![i] = b])
  /\ cookie' = set_value(cookie, [cookie.value EXCEPT ![i] = b])
  /\ tamper' = "mutate"
  /\ pc' = "tampered"
  /\ UNCHANGED <<jarVars, key, plain, signKey, result, ret>>

\* The client sends only the first n bytes of the signed value.
Truncate(n) ==
  /\ pc = "signed"
  /\ n < Len(cookie.value)
  /\ is_char_boundary(cookie.value, n)
  /\ cookie' = set_value(cookie, SubSeq(cookie.value, 1, n))
  /\ tamper' = "truncate"
  /\ pc' = "tampered"
  /\ UNCHANGED <<jarVars, key, plain, signKey, result, ret>>

\* The client puts the two-byte character U+00A3 after byte i of the tag
\* segment, as in the value of test issue_178 (signed.rs:247).
Insert(i) ==
  /\ pc = "signed"
  /\ i < BASE64_DIGEST_LEN
  /\ cookie' = set_value(cookie, SubSeq(cookie.value, 1, i) \o <<194, 163>>
                                   \o SubSeq(cookie.value, i + 1, Len(cookie.value)))
  /\ tamper' = "insert"
  /\ pc' = "tampered"
  /\ UNCHANGED <<jarVars, key, plain, signKey, result, ret>>

\* SignedJar::verify on the cookie as it stands (signed.rs:96-103).
Verify ==
  /\ pc \in {"new", "signed", "tampered"}
  /\ result' = _verify(key, cookie.value)
  /\ ret' = verify(key, cookie)
  /\ pc' = "verified"
  /\ UNCHANGED <<jarVars, key, cookie, plain, signKey, tamper>>

NextVerify ==
  \/ SignCookie
  \/ \E k \in Keys : New(k)
  \/ \E i \in 1..(BASE64_DIGEST_LEN + MaxLen), b \in ReplBytes : Mutate(i, b)
  \/ \E n \in 0..(BASE64_DIGEST_LEN + MaxLen) : Truncate(n)
  \/ \E i \in 0..BASE64_DIGEST_LEN : Insert(i)
  \/ Verify

SpecVerify == InitVerify /\ [][NextVerify]_vars

(***************************************************************************)
(* Properties                                                              *)
(***************************************************************************)

\* The value verify was given splits into a tag segment and the rest.
TagSegment(v) == SubSeq(v, 1, BASE64_DIGEST_LEN)
Rest(v) == SubSeq(v, BASE64_DIGEST_LEN + 1, Len(v))

\* Byte offset BASE64_DIGEST_LEN of v lies inside a multi-byte character.
Straddles(v) ==
  /\ Len(v) > BASE64_DIGEST_LEN
  /\ v[BASE64_DIGEST_LEN + 1] >= 128
  /\ v[BASE64_DIGEST_LEN + 1] < 192

\* s is a base-64 encoding of exactly 32 bytes.
EncodesTag(s) ==
  /\ Base64Decode(s, DefaultDigest).ok
  /\ Base64Decode(s, DefaultDigest).len = SHA256_OUTPUT_LEN

\* The cookie the parent jar holds under name n, as a set.
Held(n) == jar_get(original_cookies, delta_cookies, n)

\* C1: round trip. A cookie signed with key K and verified untouched with K
\* comes back as the cookie first given: _verify returns Ok with exactly the
\* plaintext, verify returns Some of the plaintext cookie.
C1_RoundTrip ==
  (pc = "verified" /\ tamper = "none" /\ key = signKey)
    => (result = Ok(plain.value) /\ ret = Some(plain))

C1_Witness ==
  /\ pc = "verified"
  /\ tamper = "none"
  /\ key = signKey
  /\ plain.value = <<194, 163>>
  /\ ret = Some(plain)

\* C2: tamper sensitivity. A signed value with one byte changed, verified with
\* the key that signed it, is rejected.
C2_TamperSensitivity ==
  (pc = "verified" /\ tamper = "mutate" /\ key = signKey) => ret = None

\* C3: key sensitivity. A cookie signed with one key and verified untouched
\* with another is rejected, the MAC comparison being what rejects it.
C3_KeySensitivity ==
  (pc = "verified" /\ tamper = "none" /\ key # signKey)
    => (ret = None /\ result = Err("value did not verify"))

C3_Witness ==
  /\ pc = "verified"
  /\ tamper = "none"
  /\ key # signKey
  /\ ret = None

\* C4: decode strictness. A value whose first 44 characters are not a base-64
\* encoding of exactly 32 bytes is rejected; the MAC comparison is reached
\* only with such an encoding; and verify succeeds only on a value whose tag
\* segment is the one sign_cookie produces for the rest of the value.
C4_DecodeStrictness ==
  pc = "verified" =>
    /\ (Len(cookie.value) >= BASE64_DIGEST_LEN /\ ~EncodesTag(TagSegment(cookie.value)))
         => ret = None
    /\ (result.kind = "Ok" \/ result = Err("value did not verify"))
         => EncodesTag(TagSegment(cookie.value))
    /\ ret # None
         => TagSegment(cookie.value) = Base64EncodeString(HmacSha256(key, Rest(cookie.value)))

\* C5: malformed framing. verify never panics; a value shorter than 44 bytes,
\* or whose byte offset 44 lies inside a multi-byte character, is rejected by
\* the boundary check (the first of _verify's three errors, returned before
\* the split); a value of exactly 44 bytes passes that check.
C5_MalformedFraming ==
  pc = "verified" =>
    /\ result.kind # "Panic"
    /\ (Len(cookie.value) < BASE64_DIGEST_LEN \/ Straddles(cookie.value))
         => (result = Err("missing or invalid digest") /\ ret = None)
    /\ Len(cookie.value) = BASE64_DIGEST_LEN
         => result # Err("missing or invalid digest")

C5_Witness ==
  /\ pc = "verified"
  /\ tamper = "insert"
  /\ Straddles(cookie.value)
  /\ result = Err("missing or invalid digest")
  /\ ret = None

\* C6: wire format. After add (or add_original) of a cookie with value P under
\* key K, the parent jar's cookie of that name has a value of 44 + len(P)
\* bytes: 44 characters that decode to the 32 bytes of HMAC-SHA256(K, P),
\* then P itself, with nothing between; it is not P; and two names signed
\* with the same K and P hold the same value.
C6_Stored(n) ==
  IF hist[n].kind = "add" THEN {x.cookie : x \in {y \in delta_cookies : y.cookie.name = n}}
  ELSE {x.cookie : x \in {y \in original_cookies : y.cookie.name = n}}

C6_WireFormat ==
  \A n \in Names :
    hist[n].kind \in {"add", "add_original"} =>
      /\ Cardinality(C6_Stored(n)) = 1
      /\ \A c \in C6_Stored(n) :
           /\ Len(c.value) = BASE64_DIGEST_LEN + Len(hist[n].plain)
           /\ Rest(c.value) = hist[n].plain
           /\ c.value # hist[n].plain
           /\ EncodesTag(TagSegment(c.value))
           /\ Base64Decode(TagSegment(c.value), DefaultDigest).dst
                = HmacSha256(key, hist[n].plain)
           /\ \A m \in Names :
                (hist[m].kind = hist[n].kind /\ hist[m].plain = hist[n].plain)
                  => \A d \in C6_Stored(m) : d.value = c.value

C6_Witness ==
  /\ last = [op |-> "add", name |-> "B"]
  /\ hist["A"] = hist["B"]
  /\ hist["B"].kind = "add"
  /\ hist["B"].plain = <<194, 163>>
  /\ \E c \in Held("B") : Len(c.value) = BASE64_DIGEST_LEN + 2

\* C7: the store over sequences of calls. A get of a name whose last write was
\* an add of plaintext P returns the cookie with value P, while the parent jar
\* holds the signed value, which is not P; a get of a name never written, or
\* last removed, returns None.
C7_StoreBehaviour ==
  last.op = "get" =>
    LET h == hist[last.name]
    IN  /\ h.kind = "add"
             => /\ ret = Some(Cookie(last.name, h.plain, "/"))
                /\ Held(last.name) = {sign_cookie(key, Cookie(last.name, h.plain, "/"))}
                /\ \A c \in Held(last.name) : c.value # h.plain
        /\ h.kind \in {"never", "remove"} => ret = None

C7_Witness ==
  /\ last = [op |-> "get", name |-> "A"]
  /\ hist["A"].kind = "add"
  /\ hist["B"].kind = "remove"
  /\ ret = Some(Cookie("A", <<194, 163>>, "/"))

\* C8: one rejection outcome. Whichever of its three errors _verify returns,
\* verify returns None, and it returns Some only when _verify returned Ok.
C8_SingleRejection ==
  pc = "verified" =>
    /\ result.kind \in {"Ok", "Err"}
    /\ result.kind = "Err"
         => /\ result.err \in {"missing or invalid digest", "bad base64 digest",
                               "value did not verify"}
            /\ ret = None
    /\ result.kind = "Ok" => ret # None

C8_Witness ==
  /\ pc = "verified"
  /\ result = Err("bad base64 digest")
  /\ ret = None

\* C9 as stated: every add_original leaves the delta as it was, makes the
\* count of the jar's cookies grow and makes the signed get of that name
\* return the plaintext; every add records the signed cookie in the delta.
C9_AsStated ==
  [][/\ last'.op = "add_original"
        => /\ jar_delta(delta_cookies') = jar_delta(delta_cookies)
           /\ Cardinality(jar_iter(original_cookies', delta_cookies'))
                > Cardinality(jar_iter(original_cookies, delta_cookies))
           /\ signed_get(key', original_cookies', delta_cookies', last'.name)
                = Some(Cookie(last'.name, hist'[last'.name].plain, "/"))
     /\ last'.op = "add"
        => sign_cookie(key', Cookie(last'.name, hist'[last'.name].plain, "/"))
             \in jar_delta(delta_cookies')]_vars

\* C9, amended: every add_original leaves the delta as it was and puts the
\* signed cookie among the originals; when the delta holds no entry of that
\* name the signed get of the name returns the plaintext, and when the
\* originals held none either the count of the jar's cookies grows by one.
\* Every add records the signed cookie in the delta.
C9_AddOriginalFrame ==
  [][/\ last'.op = "add_original"
        => /\ jar_delta(delta_cookies') = jar_delta(delta_cookies)
           /\ delta_cookies' = delta_cookies
           /\ DeltaCookie(sign_cookie(key', Cookie(last'.name, hist'[last'.name].plain, "/")),
                          FALSE) \in original_cookies'
           /\ ~contains(delta_cookies, last'.name)
                => signed_get(key', original_cookies', delta_cookies', last'.name)
                     = Some(Cookie(last'.name, hist'[last'.name].plain, "/"))
           /\ (~contains(delta_cookies, last'.name) /\ ~contains(original_cookies, last'.name))
                => Cardinality(jar_iter(original_cookies', delta_cookies'))
                     = Cardinality(jar_iter(original_cookies, delta_cookies)) + 1
     /\ last'.op = "add"
        => sign_cookie(key', Cookie(last'.name, hist'[last'.name].plain, "/"))
             \in jar_delta(delta_cookies')]_vars

C9_Witness ==
  /\ last = [op |-> "add_original", name |-> "A"]
  /\ jar_delta(delta_cookies) # {}
  /\ ~contains(delta_cookies, "A")
  /\ Cardinality(jar_iter(original_cookies, delta_cookies)) = 2
  /\ signed_get(key, original_cookies, delta_cookies, "A") = Some(Cookie("A", <<97>>, "/"))

\* C10: the name plays no part. When the parent jar holds under a name a value
\* signed with the jar's key for a cookie of any name, get of the holding name
\* returns the held cookie with only its value replaced, by the plaintext.
C10_NameIndependence ==
  last.op = "get" =>
    \A c \in Held(last.name) :
      \A s \in JarCookies :
        c.value = sign_cookie(key, s).value
          => ret = Some(Cookie(last.name, s.value, c.path))

C10_Witness ==
  /\ last = [op |-> "get", name |-> "B"]
  /\ hist["B"].kind = "replay"
  /\ hist["A"].kind = "add"
  /\ \E c \in Held("B") : Held("A") = {Cookie("A", c.value, c.path)}
  /\ ret = Some(Cookie("B", hist["A"].plain, "/"))
====
